---- MODULE Spec2Model ----
(***************************************************************************)
(* Model of mcp-elvis-simple: the WorkingMemory bounded store              *)
(* (working-memory.js), the tool handlers of index.js that operate on it   *)
(* and on the task map, the ModelHealthTracker (model-health.js) and the   *)
(* OllamaManager (ollama-manager.js).                                      *)
(*                                                                         *)
(* Numbers.  calculateValue works in IEEE doubles; the model works in      *)
(* integers scaled by 10^9.  Each of the four weighted terms is the        *)
(* double the code computes, rounded to nine decimals.  On the whole       *)
(* bounded domain of the model (ages of AgeDecayTerm, access counts of     *)
(* AccessBonusTerm, priorities 1..7, all categories) the order of the      *)
(* integer sums, ties included, is the order of the doubles.               *)
(*                                                                         *)
(* Time.  Date.now() and new Date() read a wall clock in milliseconds.     *)
(* Every read is a separate input of the action that performs it: the      *)
(* clock may advance between two reads of one call; it never goes back.    *)
(***************************************************************************)
EXTENDS Integers, Sequences, FiniteSets, TLC

(* ------------------------------ bounds -------------------------------- *)
MaxCapacity == 2     \* maxSlots ranges over 0..MaxCapacity
MaxHours    == 1     \* the clock is read up to MaxHours hours after start
MaxAccess   == 1     \* access() is followed up to this accessCount
MaxSuccesses == 2    \* recordSuccess is followed up to this many successes
MaxFailures  == 3    \* recordFailure is followed up to this many failures
MaxTasks     == 2    \* elvis_delegate is followed up to this many tasks
MaxPending   == 1    \* elvis_analyze_screen calls waiting at their await
MaxCalls     == 2    \* OllamaManager.callOllama is followed up to this many calls

(* ------------------------- program constants -------------------------- *)
HourMs          == 3600000   \* 1000 * 60 * 60
MinPriority     == 1
MaxPriority     == 7
ContentLimit    == 200       \* content.substring(0, 200)
RandomPrefix    == 7         \* Math.random().toString(36).substring(7)
Scale           == 10^9      \* scores are integers in units of 10^-9

Min(a, b) == IF a < b THEN a ELSE b
Max(a, b) == IF a > b THEN a ELSE b

(* ------------------------------- clock -------------------------------- *)
\* the instants at which the clock is read: the start, one millisecond
\* later, and every whole hour after the start
Instants == { 0, 1 } \cup { h * HourMs : h \in 1..MaxHours }

\* Date.prototype.toISOString: the instant as calendar fields, to the ms.
toISOString(t) == [hour |-> t \div HourMs, ms |-> t % HourMs]
\* new Date(isoString).getTime()
getTime(iso) == iso.hour * HourMs + iso.ms

LastInstant == CHOOSE t \in Instants : \A u \in Instants : u <= t

\* the clock reads of one call: n reads, none earlier than the one before
RECURSIVE Reads(_, _)
Reads(from, n) ==
  IF n = 0 THEN { <<>> }
  ELSE UNION { { <<t>> \o r : r \in Reads(t, n - 1) } :
               t \in { u \in Instants : u >= from } }

Last(seq, default) == IF Len(seq) = 0 THEN default ELSE seq[Len(seq)]

(* ------------------------------ values -------------------------------- *)
None == [kind |-> "none"]
Entry(m) == [kind |-> "entry", value |-> m]
Listing(l) == [kind |-> "list", value |-> l]
Count(n) == [kind |-> "count", value |-> n]

\* String.prototype.substring(start, end) on a string held as a sequence
substring(s, start, end) ==
  LET lo == Min(Max(start, 0), Len(s))
      hi == Min(Max(end, 0), Len(s))
  IN  SubSeq(s, Min(lo, hi) + 1, Max(lo, hi))

\* String.prototype.substring(start)
substringFrom(s, start) == substring(s, start, Len(s))

(* --------------------------- calculateValue --------------------------- *)
\* Math.exp(-age / (1000 * 60 * 60)) * 0.3
AgeDecayTerm ==
  0 :> 300000000 @@ 1 :> 299999917 @@ 2 :> 299999833 @@ 3 :> 299999750 @@
  3599997 :> 110363924 @@ 3599998 :> 110363894 @@ 3599999 :> 110363863 @@
  3600000 :> 110363832 @@ 3600001 :> 110363802 @@ 3600002 :> 110363771 @@
  3600003 :> 110363740 @@ 7199997 :> 40600619 @@ 7199998 :> 40600608 @@
  7199999 :> 40600596 @@ 7200000 :> 40600585 @@ 7200001 :> 40600574 @@
  7200002 :> 40600562 @@ 7200003 :> 40600551 @@ 10799997 :> 14936133 @@
  10799998 :> 14936129 @@ 10799999 :> 14936125 @@ 10800000 :> 14936121 @@
  10800001 :> 14936116 @@ 10800002 :> 14936112 @@ 10800003 :> 14936108

\* Math.log(accessCount + 1) * 0.2
AccessBonusTerm ==
  0 :> 0 @@ 1 :> 138629436 @@ 2 :> 219722458 @@ 3 :> 277258872 @@
  4 :> 321887582 @@ 5 :> 358351894

\* (priority / 7) * 0.3
PriorityTerm(priority) == (priority * 3 * (Scale \div 10) + 3) \div 7

\* the score that is not a number; every score that is one is >= 0
NaN == 0 - 1

\* the category table of calculateValue, in tenths
CategoryTable ==
  [decision |-> 10, insight |-> 9, pattern |-> 8,
   reference |-> 6, task |-> 5, result |-> 4]

\* the keys the table, an object literal, inherits from Object.prototype:
\* the lookup of one of them yields a function or an object, not undefined
PrototypeKeys ==
  { "constructor", "toString", "toLocaleString", "valueOf", "hasOwnProperty",
    "isPrototypeOf", "propertyIsEnumerable", "__proto__" }

\* {...}[category] || 0.5: a weight in tenths, or NaN for a value that
\* is truthy and turns into NaN in the multiplication that follows
categoryWeight(category) ==
  IF category \in DOMAIN CategoryTable THEN CategoryTable[category]
  ELSE IF category \in PrototypeKeys THEN NaN
  ELSE 5

\* categoryWeight * 0.2
CategoryTerm(category) ==
  IF categoryWeight(category) = NaN THEN NaN
  ELSE categoryWeight(category) * 2 * (Scale \div 100)

calculateValue(memory, now) ==
  LET age == now - getTime(memory.metadata.lastAccessed)
  IN  IF CategoryTerm(memory.metaTags.category) = NaN THEN NaN
      ELSE AgeDecayTerm[age] + AccessBonusTerm[memory.metadata.accessCount]
             + PriorityTerm(memory.priority)
             + CategoryTerm(memory.metaTags.category)

(* -------------------------------- state ------------------------------- *)
VARIABLES
  maxSlots,   \* this.maxSlots
  slots,      \* this.slots
  clock,      \* the wall clock at its latest read
  op,         \* the operation that completed last
  arg,        \* its arguments
  ret,        \* its return value
  evicted,    \* what its call of evictLowestValue returned, if it made one
  scored,     \* the sorted array that call built
  health,     \* ModelHealthTracker: this.health
  tasks,      \* index.js: the task records, in the order tasks.set stored them
  analyzing,  \* index.js: elvis_analyze_screen calls waiting for the analysis
  manager     \* OllamaManager: the callOllama call in progress, and its history

vars == <<maxSlots, slots, clock, op, arg, ret, evicted, scored,
          health, tasks, analyzing, manager>>

\* what the working memory does not own
serverVars == <<health, tasks, analyzing, manager>>

\* a property that was never assigned
Undefined == [kind |-> "undefined"]

\* the health table the ModelHealthTracker constructor builds
ModelNames == <<"llama3.2", "deepseek-r1", "mixtral", "gemma:2b", "phi3:mini">>

InitialHealth ==
  [m \in { ModelNames[i] : i \in 1..Len(ModelNames) } |->
     [failures |-> 0, successes |-> 0,
      status |-> CASE m = "mixtral"  -> "disabled"
                   [] m = "gemma:2b" -> "limited"
                   [] OTHER          -> "active",
      lastCheck |-> Undefined]]

NotCalled == [kind |-> "notcalled"]

\* no callOllama of the manager has been made: nothing awaited, no
\* startup result, no outcome, no generate request sent
IdleManager ==
  [pc |-> "idle", startTime |-> 0, startup |-> NotCalled,
   outcome |-> NotCalled, calls |-> 0, sent |-> 0]

(* ------------------------------- inputs ------------------------------- *)
Chars == <<"a", "b", "c">>
\* a text of n characters
Text(n) == [i \in 1..n |-> Chars[(i % Len(Chars)) + 1]]

\* Math.random().toString(36) for 0.5 and for a long fraction
RandomStrings ==
  { <<"0", ".", "i">>,
    <<"0", ".", "4", "f", "z", "y", "o", "8", "2", "m", "v", "y", "r">> }

\* `wm_${Date.now()}_${Math.random().toString(36).substring(7)}`
MakeId(now, random) == <<"wm", now, substringFrom(random, RandomPrefix)>>

\* the ids access() is called with: ids add() hands out in the first
\* millisecond and the one after, whether live, gone or never handed out
MemoryIds == { MakeId(t, r) : t \in {0, 1}, r \in RandomStrings }

\* the three inserts of the eviction scenario of the testable properties
InputA == <<Text(3), "decision", 7, <<"manual">>>>
InputB == <<Text(3), "result", 1, <<"manual">>>>
InputC == <<Text(3), "task", 5, <<"manual">>>>

\* what the callers of add() pass in the runs of Spec
AddInputs == { InputA, InputB }

\* what they pass in the runs of SpecInput: every priority with a short
\* content, every content with the default priority
InputContents   == { Text(0), Text(3), Text(200), Text(201), Text(350) }
InputPriorities == { -3, 0, 1, 4, 7, 8, 20 }
\* categories: the six of the table, one that is no key of any object,
\* and two keys every object inherits
InputCategories ==
  DOMAIN CategoryTable \cup { "note", "constructor", "toString" }

WideInputs ==
  { <<Text(3), "note", p, <<"manual">>>> : p \in InputPriorities } \cup
  { <<c, "task", 5, <<"manual">>>> : c \in InputContents }

\* two calls with nothing in range
OddInputs ==
  { <<Text(201), "constructor", 20, <<"manual">>>>,
    <<Text(0), "toString", -3, <<"manual">>>> }

\* every category at priority 5, and the odd calls
CategoryInputs ==
  { <<Text(3), c, 5, <<"manual">>>> : c \in InputCategories } \cup OddInputs

(* ------------------------------ the store ----------------------------- *)
\* (a, b) => a.score - b.score as the sort reads it: a comparator result
\* of NaN counts as 0
CompareScores(a, b) ==
  IF a.score = NaN \/ b.score = NaN THEN 0 ELSE a.score - b.score

\* one step of a stable sort: x goes behind every element that does not
\* compare greater
RECURSIVE InsertByScore(_, _)
InsertByScore(sorted, x) ==
  IF Len(sorted) = 0 THEN <<x>>
  ELSE IF CompareScores(sorted[Len(sorted)], x) <= 0 THEN Append(sorted, x)
  ELSE Append(InsertByScore(SubSeq(sorted, 1, Len(sorted) - 1), x),
              sorted[Len(sorted)])

\* Array.prototype.sort((a, b) => a.score - b.score), which is stable
RECURSIVE SortByScore(_)
SortByScore(seq) ==
  IF Len(seq) = 0 THEN <<>>
  ELSE InsertByScore(SortByScore(SubSeq(seq, 1, Len(seq) - 1)), seq[Len(seq)])

\* this.slots.map(m => ({ memory: m, score: this.calculateValue(m) }));
\* nows[i] is the clock read of the i-th calculateValue
ScoreAll(s, nows) ==
  [i \in 1..Len(s) |-> [memory |-> s[i], score |-> calculateValue(s[i], nows[i])]]

\* this.slots.filter(m => m.id !== id)
FilterOutId(s, id) == SelectSeq(s, LAMBDA m : m.id # id)

evictLowestValueUnguarded(s, nows) ==
  IF Len(s) = 0
  THEN [slots |-> s, ret |-> [kind |-> "TypeError"], scored |-> <<>>]
  ELSE LET sc == SortByScore(ScoreAll(s, nows))
       IN  [slots  |-> FilterOutId(s, sc[1].memory.id),
            ret    |-> Entry(sc[1].memory),
            scored |-> sc]

\* evictLowestValue on the slots s
evictLowestValue(s, nows) ==
  IF Len(s) = 0
  THEN [slots |-> s, ret |-> None, scored |-> <<>>]
  ELSE LET sc == SortByScore(ScoreAll(s, nows))
       IN  [slots  |-> FilterOutId(s, sc[1].memory.id),
            ret    |-> Entry(sc[1].memory),
            scored |-> sc]

ClampPriorityNoFloor(priority) == Min(priority, MaxPriority)

\* Math.min(Math.max(priority, 1), 7)
ClampPriority(priority) == Min(Max(priority, MinPriority), MaxPriority)

TruncateContentOffByOne(content) == substring(content, 0, ContentLimit + 1)

\* content.substring(0, 200)
TruncateContent(content) == substring(content, 0, ContentLimit)

\* the memory object add() builds; t0, t1, t2 are its three clock reads
NewMemory(content, category, priority, tags, random, t0, t1, t2) ==
  [id         |-> MakeId(t0, random),
   priority   |-> ClampPriority(priority),
   content    |-> TruncateContent(content),
   metaTags   |-> [layer |-> "working_memory", persistence |-> "session",
                   visibility |-> "on_demand", category |-> category,
                   status |-> "active", contextWeight |-> "0.2"],
   systemTags |-> tags,
   metadata   |-> [created |-> toISOString(t1),
                   lastAccessed |-> toISOString(t2),
                   accessCount |-> 0, source |-> "manual"]]

PushFront(s, memory) == <<memory>> \o s

PushNothing(s, memory) == s

\* this.slots.push(memory)
Push(s, memory) == Append(s, memory)

NeedsEvictionAboveOnly(s, cap) == Len(s) > cap

NeedsEvictionWhenNonEmpty(s, cap) == Len(s) >= 1

NeedsEvictionPositiveCapacity(s, cap) == cap >= 1 /\ Len(s) >= cap

\* this.slots.length >= this.maxSlots
NeedsEviction(s, cap) == Len(s) >= cap

FindIndexIgnoringSuffix(s, memoryId) ==
  IF \E i \in 1..Len(s) : s[i].id[2] = memoryId[2]
  THEN CHOOSE i \in 1..Len(s) :
         /\ s[i].id[2] = memoryId[2]
         /\ \A j \in 1..(i - 1) : s[j].id[2] # memoryId[2]
  ELSE 0

\* the index of the entry this.slots.find(m => m.id === memoryId) returns,
\* 0 when there is none
FindIndex(s, memoryId) ==
  IF \E i \in 1..Len(s) : s[i].id = memoryId
  THEN CHOOSE i \in 1..Len(s) :
         /\ s[i].id = memoryId
         /\ \A j \in 1..(i - 1) : s[j].id # memoryId
  ELSE 0

TouchKeepingTime(memory, now) ==
  [memory EXCEPT !.metadata.accessCount = @ + 1]

TouchRewritingCreated(memory, now) ==
  [memory EXCEPT !.metadata.created = toISOString(now),
                 !.metadata.lastAccessed = toISOString(now),
                 !.metadata.accessCount = @ + 1]

\* memory.metadata.lastAccessed = new Date().toISOString();
\* memory.metadata.accessCount++
Touch(memory, now) ==
  [memory EXCEPT !.metadata.lastAccessed = toISOString(now),
                 !.metadata.accessCount = @ + 1]

Init ==
  /\ maxSlots \in 0..MaxCapacity
  /\ slots = <<>>
  /\ clock = 0
  /\ op = "new"
  /\ arg = <<>>
  /\ ret = None
  /\ evicted = NotCalled
  /\ scored = <<>>
  /\ health = InitialHealth
  /\ tasks = <<>>
  /\ analyzing = <<>>
  /\ manager = IdleManager

\* the clock reads the eviction of an add() makes after the read at from:
\* one per live entry when the store is full, none otherwise
EvictionReads(s, cap, from) ==
  IF NeedsEviction(s, cap) THEN Reads(from, Len(s)) ELSE { <<>> }

\* lines 238-243 of add(): evict when full, then push; nows are the clock
\* reads of the eviction
add(s, cap, memory, nows) ==
  IF NeedsEviction(s, cap)
  THEN LET ev == evictLowestValue(s, nows)
       IN  [slots |-> Push(ev.slots, memory), evicted |-> ev.ret,
            scored |-> ev.scored]
  ELSE [slots |-> Push(s, memory), evicted |-> NotCalled, scored |-> <<>>]

\* add(content, category, priority, tags); random is what Math.random()
\* returns and r are the three clock reads that build the memory object
Add(content, category, priority, tags, random, r) ==
  LET memory == NewMemory(content, category, priority, tags, random,
                          r[1], r[2], r[3])
  IN  /\ \E nows \in EvictionReads(slots, maxSlots, r[3]) :
           LET a == add(slots, maxSlots, memory, nows)
           IN  /\ slots' = a.slots
               /\ evicted' = a.evicted
               /\ scored' = a.scored
               /\ clock' = Last(nows, r[3])
      /\ ret' = Entry(memory)
      /\ op' = "add"
      /\ arg' = <<content, category, priority, tags>>
      /\ UNCHANGED maxSlots

\* evictLowestValue()
EvictLowestValue ==
  \E nows \in Reads(clock, Len(slots)) :
    LET ev == evictLowestValue(slots, nows)
    IN  /\ slots' = ev.slots
        /\ evicted' = ev.ret
        /\ scored' = ev.scored
        /\ ret' = ev.ret
        /\ clock' = Last(nows, clock)
        /\ op' = "evictLowestValue"
        /\ arg' = <<>>
        /\ UNCHANGED maxSlots

\* access(memoryId)
Access(memoryId) ==
  LET i == FindIndex(slots, memoryId)
  IN  /\ IF i # 0
         THEN /\ slots[i].metadata.accessCount < MaxAccess
              /\ \E now \in Reads(clock, 1) :
                   /\ slots' = [slots EXCEPT ![i] = Touch(@, now[1])]
                   /\ clock' = now[1]
              /\ ret' = Entry(slots'[i])
         ELSE /\ UNCHANGED <<slots, clock>>
              /\ ret' = None
      /\ op' = "access"
      /\ arg' = <<memoryId>>
      /\ evicted' = NotCalled
      /\ scored' = <<>>
      /\ UNCHANGED maxSlots

\* Number.prototype.toFixed(3) of a score, in thousandths
toFixed3(score) == IF score = NaN THEN NaN ELSE (score + 5 * 10^5) \div 10^6

\* list(verbose)
List(verbose) ==
  /\ IF verbose
     THEN \E nows \in Reads(clock, Len(slots)) :
            /\ ret' = Listing([i \in 1..Len(slots) |->
                         [memory |-> slots[i],
                          value |-> toFixed3(calculateValue(slots[i], nows[i]))]])
            /\ clock' = Last(nows, clock)
     ELSE /\ ret' = Listing(slots)
          /\ UNCHANGED clock
  /\ op' = "list"
  /\ arg' = <<verbose>>
  /\ evicted' = NotCalled
  /\ scored' = <<>>
  /\ UNCHANGED <<maxSlots, slots>>

ClearKeepingFirst ==
  /\ ret' = Count(Len(slots))
  /\ slots' = IF Len(slots) = 0 THEN <<>> ELSE <<slots[1]>>
  /\ op' = "clear"
  /\ arg' = <<>>
  /\ evicted' = NotCalled
  /\ scored' = <<>>
  /\ UNCHANGED <<maxSlots, clock>>

\* the clear action of the elvis_memory tool
Clear ==
  /\ ret' = Count(Len(slots))
  /\ slots' = <<>>
  /\ op' = "clear"
  /\ arg' = <<>>
  /\ evicted' = NotCalled
  /\ scored' = <<>>
  /\ UNCHANGED <<maxSlots, clock>>

Next ==
  \/ \E in \in AddInputs, random \in RandomStrings, r \in Reads(clock, 3) :
       Add(in[1], in[2], in[3], in[4], random, r) /\ UNCHANGED serverVars
  \/ EvictLowestValue /\ UNCHANGED serverVars
  \/ \E memoryId \in MemoryIds : Access(memoryId) /\ UNCHANGED serverVars
  \/ \E verbose \in BOOLEAN : List(verbose) /\ UNCHANGED serverVars
  \/ Clear /\ UNCHANGED serverVars

Spec == Init /\ [][Next]_vars

(* ---- the eviction scenario: capacity 2, then insert A, B and C ------- *)
InitScenario == Init /\ maxSlots = 2

NextScenario ==
  /\ \E random \in RandomStrings, r \in Reads(clock, 3) :
       \/ op = "new"
            /\ Add(InputA[1], InputA[2], InputA[3], InputA[4], random, r)
       \/ op = "add" /\ arg = InputA
            /\ Add(InputB[1], InputB[2], InputB[3], InputB[4], random, r)
       \/ op = "add" /\ arg = InputB
            /\ Add(InputC[1], InputC[2], InputC[3], InputC[4], random, r)
  /\ UNCHANGED serverVars

SpecScenario == InitScenario /\ [][NextScenario]_vars

(* ---- inserts with out-of-range priorities and oversized contents ----- *)
\* the store is created at the last instant of the horizon
InitInput ==
  /\ maxSlots \in 1..MaxCapacity
  /\ slots = <<>>
  /\ clock = LastInstant
  /\ op = "new"
  /\ arg = <<>>
  /\ ret = None
  /\ evicted = NotCalled
  /\ scored = <<>>
  /\ health = InitialHealth
  /\ tasks = <<>>
  /\ analyzing = <<>>
  /\ manager = IdleManager

NextInput ==
  \/ \E in \in WideInputs, random \in RandomStrings, r \in Reads(clock, 3) :
       Add(in[1], in[2], in[3], in[4], random, r) /\ UNCHANGED serverVars
  \/ Clear /\ UNCHANGED serverVars

SpecInput == InitInput /\ [][NextInput]_vars

\* every category, late on the clock
NextCategory ==
  \/ \E in \in CategoryInputs, random \in RandomStrings, r \in Reads(clock, 3) :
       Add(in[1], in[2], in[3], in[4], random, r) /\ UNCHANGED serverVars
  \/ EvictLowestValue /\ UNCHANGED serverVars
  \/ \E verbose \in BOOLEAN : List(verbose) /\ UNCHANGED serverVars
  \/ Clear /\ UNCHANGED serverVars

SpecCategory == InitInput /\ [][NextCategory]_vars

\* what add() is called with in the runs of SpecAccess: a category of the
\* table and a key every object inherits
AccessInputs ==
  { <<Text(3), "task", 5, <<"manual">>>>,
    <<Text(3), "constructor", 5, <<"manual">>>> }

\* add, access and clear on a store of one slot or two, from the first
\* instant on
InitAccess == Init /\ maxSlots >= 1

NextAccess ==
  \/ \E in \in AccessInputs, random \in RandomStrings, r \in Reads(clock, 3) :
       Add(in[1], in[2], in[3], in[4], random, r) /\ UNCHANGED serverVars
  \/ \E memoryId \in MemoryIds : Access(memoryId) /\ UNCHANGED serverVars
  \/ Clear /\ UNCHANGED serverVars

SpecAccess == InitAccess /\ [][NextAccess]_vars

(* ------------------------ the model health tracker ------------------- *)
\* this.circuitBreaker.threshold
Threshold == 3

\* the models the calls name: tracked ones and one that is no key of the table
HealthInputs == { "llama3.2", "deepseek-r1", "mixtral", "gemma:2b", "unknown" }

\* if (this.health[model])
IsTracked(h, model) == model \in DOMAIN h

recordSuccessKeepingStatus(h, model, now) ==
  IF IsTracked(h, model)
  THEN [h EXCEPT ![model] = [@ EXCEPT !.successes = @ + 1,
                                      !.failures = 0,
                                      !.lastCheck = now]]
  ELSE h

\* recordSuccess(model) on the table h; now is what new Date() reads
recordSuccess(h, model, now) ==
  IF IsTracked(h, model)
  THEN [h EXCEPT ![model] = [@ EXCEPT !.successes = @ + 1,
                                      !.failures = 0,
                                      !.status = "active",
                                      !.lastCheck = now]]
  ELSE h

recordFailureAboveThreshold(h, model, now) ==
  IF IsTracked(h, model)
  THEN [h EXCEPT ![model] =
          [@ EXCEPT !.failures = @ + 1,
                    !.lastCheck = now,
                    !.status = IF h[model].failures + 1 > Threshold
                               THEN "disabled" ELSE @]]
  ELSE h

recordFailureCountingOnly(h, model, now) ==
  IF IsTracked(h, model)
  THEN [h EXCEPT ![model] = [@ EXCEPT !.failures = @ + 1, !.lastCheck = now]]
  ELSE h

\* recordFailure(model) on the table h
recordFailure(h, model, now) ==
  IF IsTracked(h, model)
  THEN [h EXCEPT ![model] =
          [@ EXCEPT !.failures = @ + 1,
                    !.lastCheck = now,
                    !.status = IF h[model].failures + 1 >= Threshold
                               THEN "disabled" ELSE @]]
  ELSE h

\* !this.health[model] || this.health[model].status === 'active'
isHealthy(h, model) == ~IsTracked(h, model) \/ h[model].status = "active"

\* a.successes + a.failures || 1
RateDenominator(a) ==
  IF a.successes + a.failures = 0 THEN 1 ELSE a.successes + a.failures

CompareRatesAscending(a, b) ==
  a.successes * RateDenominator(b) - b.successes * RateDenominator(a)

\* the sign of bRate - aRate, rate = successes / (successes + failures || 1):
\* both rates are quotients of small naturals, so the doubles differ exactly
\* when the fractions do, and the sign is that of the cross product
CompareRates(a, b) ==
  b.successes * RateDenominator(a) - a.successes * RateDenominator(b)

\* one step of the stable sort of getBestModel; x is a <<model, record>> pair
RECURSIVE InsertByRate(_, _)
InsertByRate(sorted, x) ==
  IF Len(sorted) = 0 THEN <<x>>
  ELSE IF CompareRates(sorted[Len(sorted)][2], x[2]) <= 0 THEN Append(sorted, x)
  ELSE Append(InsertByRate(SubSeq(sorted, 1, Len(sorted) - 1), x),
              sorted[Len(sorted)])

RECURSIVE SortByRate(_)
SortByRate(a) ==
  IF Len(a) = 0 THEN <<>>
  ELSE InsertByRate(SortByRate(SubSeq(a, 1, Len(a) - 1)), a[Len(a)])

\* Object.entries(this.health): the pairs in the order of the table
HealthEntries(h) == [i \in 1..Len(ModelNames) |-> <<ModelNames[i], h[ModelNames[i]]>>]

getBestModelOtherFallback(h) ==
  LET active == SortByRate(SelectSeq(HealthEntries(h),
                                     LAMBDA e : e[2].status = "active"))
  IN  IF Len(active) > 0 THEN active[1][1] ELSE "mixtral"

\* getBestModel() on the table h
getBestModel(h) ==
  LET active == SortByRate(SelectSeq(HealthEntries(h),
                                     LAMBDA e : e[2].status = "active"))
  IN  IF Len(active) > 0 THEN active[1][1] ELSE "llama3.2"

\* recordSuccess(model)
RecordSuccess(model) ==
  /\ IsTracked(health, model) => health[model].successes < MaxSuccesses
  /\ \E now \in Reads(clock, 1) :
       /\ health' = recordSuccess(health, model, now[1])
       /\ clock' = IF IsTracked(health, model) THEN now[1] ELSE clock
  /\ op' = "recordSuccess"
  /\ arg' = <<model>>
  /\ ret' = Undefined
  /\ UNCHANGED <<maxSlots, slots, evicted, scored, tasks, analyzing, manager>>

\* recordFailure(model)
RecordFailure(model) ==
  /\ IsTracked(health, model) => health[model].failures < MaxFailures
  /\ \E now \in Reads(clock, 1) :
       /\ health' = recordFailure(health, model, now[1])
       /\ clock' = IF IsTracked(health, model) THEN now[1] ELSE clock
  /\ op' = "recordFailure"
  /\ arg' = <<model>>
  /\ ret' = Undefined
  /\ UNCHANGED <<maxSlots, slots, evicted, scored, tasks, analyzing, manager>>

\* isHealthy(model)
IsHealthy(model) ==
  /\ op' = "isHealthy"
  /\ arg' = <<model>>
  /\ ret' = isHealthy(health, model)
  /\ UNCHANGED <<maxSlots, slots, clock, evicted, scored, health, tasks, analyzing, manager>>

\* getBestModel()
GetBestModel ==
  /\ op' = "getBestModel"
  /\ arg' = <<>>
  /\ ret' = getBestModel(health)
  /\ UNCHANGED <<maxSlots, slots, clock, evicted, scored, health, tasks, analyzing, manager>>

\* the tracker alone, created at the last instant of the horizon
InitHealth == InitInput /\ maxSlots = 1

NextHealth ==
  \/ \E model \in HealthInputs : RecordSuccess(model)
  \/ \E model \in HealthInputs : RecordFailure(model)
  \/ \E model \in HealthInputs : IsHealthy(model)
  \/ GetBestModel

SpecHealth == InitHealth /\ [][NextHealth]_vars

\* the five models of the table
TrackedModels == { ModelNames[i] : i \in 1..Len(ModelNames) }

\* the tracker with failures of every model of the table, so that all of
\* them can be disabled at once, and successes of the first
NextBreaker ==
  \/ \E model \in TrackedModels : RecordFailure(model)
  \/ RecordSuccess("llama3.2")
  \/ \E model \in TrackedModels : IsHealthy(model)
  \/ GetBestModel

SpecBreaker == InitHealth /\ [][NextBreaker]_vars

(* ----------------------- index.js: delegated tasks ------------------- *)
\* new WorkingMemory(7)
ServerSlots == 7

\* result: null, error: null
Null == [kind |-> "null"]

\* a string value, where null or undefined can stand as well
Str(v) == [kind |-> "string", value |-> v]

\* the server right after start-up, its clock at start
InitServer(start) ==
  /\ maxSlots = ServerSlots
  /\ slots = <<>>
  /\ clock = start
  /\ op = "new"
  /\ arg = <<>>
  /\ ret = None
  /\ evicted = NotCalled
  /\ scored = <<>>
  /\ health = InitialHealth
  /\ tasks = <<>>
  /\ analyzing = <<>>
  /\ manager = IdleManager

\* `task_${Date.now()}_${Math.random().toString(36).substring(7)}`
generateTaskId(now, random) == <<"task", now, substringFrom(random, RandomPrefix)>>

\* the task record the elvis_delegate handler creates; t is the read of
\* new Date() for created
NewTask(taskId, task, model, context, t) ==
  [id |-> taskId, task |-> task, model |-> model, context |-> context,
   status |-> "pending", created |-> toISOString(t),
   result |-> Null, error |-> Null,
   started |-> Undefined, completed |-> Undefined, duration_ms |-> Undefined]

StartProcessingAsCompleted(record, t) ==
  [record EXCEPT !.status = "completed", !.started = toISOString(t)]

\* the first two statements of the async block, which run before the
\* handler returns
StartProcessing(record, t) ==
  [record EXCEPT !.status = "processing", !.started = toISOString(t)]

\* the statements after a callOllama that resolved with result
CompleteTask(record, result, t) ==
  [record EXCEPT !.status = "completed", !.completed = toISOString(t),
                 !.result = result,
                 !.duration_ms = t - getTime(record.started)]

\* the catch block; message is error.message
FailTask(record, message, t) ==
  [record EXCEPT !.status = "failed", !.error = message,
                 !.completed = toISOString(t)]

\* tasks.get(task_id): the record stored last under the id, if any
TasksGet(ts, taskId) ==
  IF \E i \in 1..Len(ts) : ts[i].id = taskId
  THEN ts[CHOOSE i \in 1..Len(ts) :
            /\ ts[i].id = taskId
            /\ \A j \in (i + 1)..Len(ts) : ts[j].id # taskId]
  ELSE Undefined

\* what the tools are called with
TaskText == Text(3)
ResultText == Text(2)
TaskIds ==
  { generateTaskId(t, r) : t \in { LastInstant }, r \in RandomStrings }
    \cup { <<"task", 0, <<"x">>>> }

\* elvis_delegate: the handler up to its return, the start of the async
\* block included; r are the reads of taskId, created and started
ToolDelegate(task, model, context, random, r) ==
  LET taskId == generateTaskId(r[1], random)
      record == StartProcessing(NewTask(taskId, task, model, context, r[2]), r[3])
  IN  /\ Len(tasks) < MaxTasks
      /\ tasks' = Append(tasks, record)
      /\ clock' = r[3]
      /\ op' = "elvis_delegate"
      /\ arg' = <<task, model, context>>
      /\ ret' = [kind |-> "delegated", taskId |-> taskId, model |-> model,
                 status |-> "pending"]
      /\ UNCHANGED <<maxSlots, slots, evicted, scored, health, analyzing, manager>>

\* the async block of the i-th task resumes with the result of callOllama
OllamaResolves(i, result, r) ==
  /\ tasks[i].status = "processing"
  /\ tasks' = [tasks EXCEPT ![i] = CompleteTask(@, result, r[1])]
  /\ clock' = r[1]
  /\ op' = "resolved"
  /\ arg' = <<i>>
  /\ ret' = Undefined
  /\ UNCHANGED <<maxSlots, slots, evicted, scored, health, analyzing, manager>>

\* the async block of the i-th task resumes with the error callOllama threw
OllamaRejects(i, r) ==
  /\ tasks[i].status = "processing"
  /\ tasks' = [tasks EXCEPT ![i] = FailTask(@, Str("Failed to call Ollama"), r[1])]
  /\ clock' = r[1]
  /\ op' = "rejected"
  /\ arg' = <<i>>
  /\ ret' = Undefined
  /\ UNCHANGED <<maxSlots, slots, evicted, scored, health, analyzing, manager>>

\* elvis_status
ToolStatus(task_id) ==
  LET task == TasksGet(tasks, task_id)
  IN  /\ ret' = IF task = Undefined THEN [kind |-> "notfound"]
                ELSE [kind |-> "status", status |-> task.status,
                      model |-> task.model, created |-> task.created,
                      started |-> task.started, completed |-> task.completed,
                      error |-> task.error]
      /\ op' = "elvis_status"
      /\ arg' = <<task_id>>
      /\ UNCHANGED <<maxSlots, slots, clock, evicted, scored, health, tasks,
                     analyzing, manager>>

IsFinished(task) == task.status \in { "completed", "failed" }

\* task.status !== 'completed', negated
IsCompleted(task) == task.status = "completed"

\* (task.duration_ms / 1000).toFixed(1), in tenths of a second
toFixed1Seconds(ms) == (ms + 50) \div 100

\* `${task.task.substring(0, 100)} -> ${task.result.substring(0, 50)}...`
ResultSummary(task) ==
  substring(task.task, 0, 100) \o <<" ", "->", " ">>
    \o substring(task.result.value, 0, 50) \o <<".", ".", ".">>

\* elvis_result; r are the three clock reads of the add() it makes
ToolResult(task_id, random, r) ==
  LET task == TasksGet(tasks, task_id)
  IN  /\ IF task = Undefined
         THEN /\ ret' = [kind |-> "notfound"]
              /\ UNCHANGED <<slots, clock, evicted, scored>>
         ELSE IF ~IsCompleted(task)
         THEN /\ ret' = [kind |-> "notcompleted", status |-> task.status]
              /\ UNCHANGED <<slots, clock, evicted, scored>>
         ELSE IF task.result.kind # "string"
         THEN /\ ret' = [kind |-> "TypeError"]
              /\ UNCHANGED <<slots, clock, evicted, scored>>
         ELSE LET memory ==
                    NewMemory(ResultSummary(task), "result", 3,
                              <<task.model, "elvis",
                                <<"duration", toFixed1Seconds(task.duration_ms)>>>>,
                              random, r[1], r[2], r[3])
              IN  \E nows \in EvictionReads(slots, maxSlots, r[3]) :
                    LET a == add(slots, maxSlots, memory, nows)
                    IN  /\ slots' = a.slots
                        /\ evicted' = a.evicted
                        /\ scored' = a.scored
                        /\ clock' = Last(nows, r[3])
                        /\ ret' = [kind |-> "result", task |-> task.task,
                                   result |-> task.result,
                                   slot |-> Len(a.slots)]
      /\ op' = "elvis_result"
      /\ arg' = <<task_id>>
      /\ UNCHANGED <<maxSlots, health, tasks, analyzing, manager>>

\* the task tools, the server started at the last instant of the horizon
InitTasks == InitServer(LastInstant)

NextTasks ==
  \/ \E random \in RandomStrings, r \in Reads(clock, 3) :
       ToolDelegate(TaskText, "llama3.2", <<>>, random, r)
  \/ \E i \in 1..Len(tasks), result \in { Str(ResultText), Undefined },
        r \in Reads(clock, 1) : OllamaResolves(i, result, r)
  \/ \E i \in 1..Len(tasks), r \in Reads(clock, 1) : OllamaRejects(i, r)
  \/ \E task_id \in TaskIds : ToolStatus(task_id)
  \/ \E task_id \in TaskIds, random \in RandomStrings, r \in Reads(clock, 3) :
       ToolResult(task_id, random, r)

SpecTasks == InitTasks /\ [][NextTasks]_vars

(* -------------------- index.js: callOllama settles ------------------- *)
\* what the fetch of callOllama comes to: fetch itself throws, the response
\* is not ok, response.json() throws, or the body is parsed and
\* data.response is a string or is missing; detail is the message of the
\* error, the statusText or data.response
FetchThrows(message)     == [kind |-> "fetch throws", detail |-> Str(message)]
ResponseNotOk(statusText) == [kind |-> "not ok", detail |-> Str(statusText)]
JsonThrows(message)      == [kind |-> "json throws", detail |-> Str(message)]
ResponseOk(response)     == [kind |-> "ok", detail |-> response]

OllamaOutcomes ==
  { FetchThrows(<<"fetch failed">>), ResponseNotOk(<<"Not Found">>),
    JsonThrows(<<"Unexpected end of JSON input">>),
    ResponseOk(Str(ResultText)), ResponseOk(Undefined) }

\* the promise of callOllama: resolved with a value or rejected with an
\* Error of the given message
Resolved(value)   == [kind |-> "resolved", value |-> value]
Rejected(message) == [kind |-> "rejected", value |-> Str(message)]

callOllamaIgnoringStatus(outcome) ==
  IF outcome.kind \in { "fetch throws", "json throws" }
  THEN Rejected(<<"Failed to call Ollama: ">> \o outcome.detail.value)
  ELSE Resolved(outcome.detail)

\* callOllama(prompt, model) for one outcome of its fetch
callOllama(outcome) ==
  IF outcome.kind = "not ok"
  THEN Rejected(<<"Failed to call Ollama: ", "Ollama error: ">>
                  \o outcome.detail.value)
  ELSE IF outcome.kind \in { "fetch throws", "json throws" }
  THEN Rejected(<<"Failed to call Ollama: ">> \o outcome.detail.value)
  ELSE Resolved(outcome.detail)

\* the async block of the i-th task resumes when callOllama has settled and
\* runs to its end; r is the read of new Date() for completed
OllamaSettles(i, outcome, r) ==
  LET settled == callOllama(outcome)
  IN  /\ tasks[i].status = "processing"
      /\ tasks' = [tasks EXCEPT ![i] =
                     IF settled.kind = "resolved"
                     THEN CompleteTask(@, settled.value, r[1])
                     ELSE FailTask(@, settled.value, r[1])]
      /\ clock' = r[1]
      /\ op' = "settled"
      /\ arg' = <<i, outcome>>
      /\ ret' = Undefined
      /\ UNCHANGED <<maxSlots, slots, evicted, scored, health, analyzing, manager>>

\* delegated tasks and the calls they wait for
NextDelegate ==
  \/ \E random \in RandomStrings, r \in Reads(clock, 3) :
       ToolDelegate(TaskText, "llama3.2", <<>>, random, r)
  \/ \E i \in 1..Len(tasks), outcome \in OllamaOutcomes,
        r \in Reads(clock, 1) : OllamaSettles(i, outcome, r)
  \/ \E task_id \in TaskIds : ToolStatus(task_id)

SpecDelegate == InitTasks /\ [][NextDelegate]_vars

\* the call of the i-th task settles at some time
SettlesSomehow(i) ==
  \E outcome \in OllamaOutcomes, r \in Reads(clock, 1) :
    i <= Len(tasks) /\ OllamaSettles(i, outcome, r)

\* every Ollama call returns or throws in the end
SpecDelegateFair ==
  SpecDelegate /\ \A i \in 1..MaxTasks : WF_vars(SettlesSomehow(i))

(* --------------------- ollama-manager.js: OllamaManager --------------- *)
\* this.maxStartupTime
MaxStartupTime == 30000

\* what ensureRunning returns
AlreadyRunning == [success |-> TRUE, action |-> "already_running", error |-> <<>>]
Started        == [success |-> TRUE, action |-> "started", error |-> <<>>]
LoadFailed(error) ==
  [success |-> FALSE, action |-> "load_failed",
   error |-> <<"Failed to load service: ">> \o error]
Timeout ==
  [success |-> FALSE, action |-> "timeout",
   error |-> <<"Ollama failed to start within timeout period">>]

ProceedWithoutCheck(m, startupResult) ==
  [m EXCEPT !.startup = startupResult, !.pc = "generate", !.sent = @ + 1]

\* callOllama from the return of ensureRunning to its next await: it throws
\* when the startup failed, and sends the generate request otherwise
Proceed(m, startupResult) ==
  IF ~startupResult.success
  THEN [m EXCEPT !.startup = startupResult, !.pc = "done",
                 !.outcome = Rejected(<<"Cannot start Ollama: ">>
                                        \o startupResult.error)]
  ELSE [m EXCEPT !.startup = startupResult, !.pc = "generate", !.sent = @ + 1]

\* the test of the while loop of ensureRunning, with now the read of
\* Date.now(): the call sleeps for a second, or ensureRunning gives up
EnterLoop(m, startTime, now) ==
  IF now - startTime < MaxStartupTime
  THEN [m EXCEPT !.startTime = startTime, !.pc = "sleep"]
  ELSE Proceed([m EXCEPT !.startTime = startTime], Timeout)

\* what callOllama of the manager comes to once the generate request has
\* its outcome
ManagerSettled(outcome, startupResult) ==
  IF outcome.kind = "not ok"
  THEN Rejected(<<"Failed to call Ollama: ", "Ollama error: ">>
                  \o outcome.detail.value)
  ELSE IF outcome.kind \in { "fetch throws", "json throws" }
  THEN Rejected(<<"Failed to call Ollama: ">> \o outcome.detail.value)
  ELSE Resolved([response |-> outcome.detail,
                 startup |-> IF startupResult.action # "already_running"
                             THEN startupResult ELSE Null])

\* every step of the manager leaves the rest of the server alone
ManagerStep(o, a) ==
  /\ op' = o
  /\ arg' = a
  /\ ret' = manager'.outcome
  /\ UNCHANGED <<maxSlots, slots, evicted, scored, health, tasks, analyzing>>

\* callOllama(prompt, model) up to the first await of ensureRunning: the
\* version request of isRunning is under way
ManagerCallOllama ==
  /\ manager.pc \in { "idle", "done" }
  /\ manager.calls < MaxCalls
  /\ manager' = [manager EXCEPT !.pc = "isRunning", !.startup = NotCalled,
                                !.outcome = NotCalled, !.calls = @ + 1]
  /\ UNCHANGED clock
  /\ ManagerStep("callOllama", <<>>)

\* the first isRunning() of ensureRunning returns
IsRunningReturns(running) ==
  /\ manager.pc = "isRunning"
  /\ manager' = IF running THEN Proceed(manager, AlreadyRunning)
                ELSE [manager EXCEPT !.pc = "isServiceLoaded"]
  /\ UNCHANGED clock
  /\ ManagerStep("isRunning", <<running>>)

\* isServiceLoaded() returns; r are the reads of Date.now() for startTime
\* and for the first test of the loop
IsServiceLoadedReturns(loaded, r) ==
  /\ manager.pc = "isServiceLoaded"
  /\ IF loaded
     THEN /\ manager' = EnterLoop(manager, r[1], r[2])
          /\ clock' = r[2]
     ELSE /\ manager' = [manager EXCEPT !.pc = "loadService"]
          /\ UNCHANGED clock
  /\ ManagerStep("isServiceLoaded", <<loaded>>)

\* loadService() returns
LoadServiceReturns(success, r) ==
  /\ manager.pc = "loadService"
  /\ IF success
     THEN /\ manager' = EnterLoop(manager, r[1], r[2])
          /\ clock' = r[2]
     ELSE /\ manager' = Proceed(manager, LoadFailed(<<"Command failed">>))
          /\ UNCHANGED clock
  /\ ManagerStep("loadService", <<success>>)

\* the second of sleep is over and the isRunning() of the loop is under way
TimerFires ==
  /\ manager.pc = "sleep"
  /\ manager' = [manager EXCEPT !.pc = "check"]
  /\ UNCHANGED clock
  /\ ManagerStep("setTimeout", <<>>)

\* the isRunning() of the loop returns; r is the read of Date.now() for
\* startupTime, or for the next test of the loop
CheckReturns(running, r) ==
  /\ manager.pc = "check"
  /\ manager' = IF running THEN Proceed(manager, Started)
                ELSE EnterLoop(manager, manager.startTime, r[1])
  /\ clock' = r[1]
  /\ ManagerStep("isRunning", <<running>>)

\* the generate request has its outcome and callOllama settles
GenerateSettles(outcome) ==
  /\ manager.pc = "generate"
  /\ manager' = [manager EXCEPT
                   !.pc = "done",
                   !.outcome = ManagerSettled(outcome, manager.startup)]
  /\ UNCHANGED clock
  /\ ManagerStep("generate", <<outcome>>)

\* the manager alone, on a server started at the first instant
InitManager == InitServer(0)

NextManager ==
  \/ ManagerCallOllama
  \/ \E running \in BOOLEAN : IsRunningReturns(running)
  \/ \E loaded \in BOOLEAN, r \in Reads(clock, 2) :
       IsServiceLoadedReturns(loaded, r)
  \/ \E success \in BOOLEAN, r \in Reads(clock, 2) :
       LoadServiceReturns(success, r)
  \/ TimerFires
  \/ \E running \in BOOLEAN, r \in Reads(clock, 1) : CheckReturns(running, r)
  \/ \E outcome \in OllamaOutcomes : GenerateSettles(outcome)

SpecManager == InitManager /\ [][NextManager]_vars

(* --------------------- index.js: elvis_memory tool -------------------- *)
\* a number, where undefined can stand as well
Num(n) == [kind |-> "number", value |-> n]

\* priority || 5
PriorityOrDefault(priority) ==
  IF priority.kind = "undefined" \/ priority.value = 0 THEN 5
  ELSE priority.value

\* the entry the add handler works out before it calls add(): the first of
\* the live entries sorted by score when the store is full, null otherwise;
\* nows[i] is the clock read of the i-th calculateValue
PrecomputedEvicted(s, cap, nows) ==
  IF Len(s) >= cap
  THEN IF Len(s) = 0 THEN [kind |-> "TypeError"]
       ELSE Entry(SortByScore(ScoreAll(s, nows))[1].memory)
  ELSE Null

\* elvis_memory add; pre are the clock reads of the handler's own scoring,
\* r the three reads that build the memory object
ToolMemoryAdd(content, category, priority, random, pre, r) ==
  /\ IF content = <<>> \/ category = ""
     THEN /\ ret' = [kind |-> "error"]
          /\ UNCHANGED <<slots, clock, evicted, scored>>
     ELSE LET named  == PrecomputedEvicted(slots, maxSlots, pre)
              memory == NewMemory(content, category,
                                  PriorityOrDefault(priority), <<"manual">>,
                                  random, r[1], r[2], r[3])
          IN  \E nows \in EvictionReads(slots, maxSlots, r[3]) :
                LET a == add(slots, maxSlots, memory, nows)
                IN  /\ slots' = a.slots
                    /\ evicted' = a.evicted
                    /\ scored' = a.scored
                    /\ clock' = Last(nows, r[3])
                    /\ ret' = [kind |-> "added", id |-> memory.id,
                               category |-> category,
                               priority |-> memory.priority,
                               evicted |-> named]
  /\ op' = "elvis_memory add"
  /\ arg' = <<content, category, priority>>
  /\ UNCHANGED <<maxSlots, health, tasks, analyzing, manager>>

\* elvis_memory access
ToolMemoryAccess(memory_id) ==
  /\ IF memory_id = <<>>
     THEN /\ ret' = [kind |-> "error"]
          /\ op' = "access"
          /\ arg' = <<memory_id>>
          /\ evicted' = NotCalled
          /\ scored' = <<>>
          /\ UNCHANGED <<maxSlots, slots, clock>>
     ELSE Access(memory_id)
  /\ UNCHANGED <<health, tasks, analyzing, manager>>

\* elvis_memory list
ToolMemoryList == List(TRUE) /\ UNCHANGED <<health, tasks, analyzing, manager>>

\* elvis_memory clear
ToolMemoryClear == Clear /\ UNCHANGED <<health, tasks, analyzing, manager>>

\* the adds of the tool: both categories with no priority, and the two
\* calls the handler turns down
ToolAddInputs ==
  { <<Text(3), "result", Undefined>>, <<Text(3), "task", Undefined>>,
    <<Text(0), "result", Undefined>>, <<Text(3), "", Undefined>> }

\* one value of Math.random().toString(36)
OneRandom == <<"0", ".", "i">>

\* the ids the access action is called with
ToolMemoryIds == { MakeId(1, OneRandom), <<>> }

\* the memory tool on a server started at 1 ms
InitMemoryTool == InitServer(1)

NextMemoryTool ==
  \/ \E in \in ToolAddInputs, pre \in EvictionReads(slots, maxSlots, clock) :
       \E r \in Reads(Last(pre, clock), 3) :
         ToolMemoryAdd(in[1], in[2], in[3], OneRandom, pre, r)
  \/ \E memory_id \in ToolMemoryIds : ToolMemoryAccess(memory_id)
  \/ ToolMemoryList
  \/ ToolMemoryClear

SpecMemoryTool == InitMemoryTool /\ [][NextMemoryTool]_vars


\* the priorities the add action is called with: none, and numbers below,
\* at and above the range 1..7
ToolPriorities == { Undefined, Num(-3), Num(0), Num(1), Num(9) }

\* the add action with every priority, on a server whose clock stands at
\* the last instant
InitToolPriority == InitServer(LastInstant)

NextToolPriority ==
  \/ \E priority \in ToolPriorities,
        pre \in EvictionReads(slots, maxSlots, clock) :
       \E r \in Reads(Last(pre, clock), 3) :
         ToolMemoryAdd(Text(3), "result", priority, OneRandom, pre, r)
  \/ ToolMemoryClear

SpecToolPriority == InitToolPriority /\ [][NextToolPriority]_vars


(* ------------------ index.js: elvis_analyze_screen tool --------------- *)
\* 'Screen analysis: '
IntentPrefix ==
  <<"S", "c", "r", "e", "e", "n", " ", "a", "n", "a", "l", "y", "s", "i", "s",
    ":", " ">>

\* 'Screen analysis result: '
ResultPrefix ==
  <<"S", "c", "r", "e", "e", "n", " ", "a", "n", "a", "l", "y", "s", "i", "s",
    " ", "r", "e", "s", "u", "l", "t", ":", " ">>

\* what screenControl.captureAndAnalyze resolves with: a failure, or an
\* analysis text
AnalysisFailed == [success |-> FALSE]
Analysis(text) == [success |-> TRUE, analysis |-> text]
AnalysisResults == { AnalysisFailed, Analysis(Text(2)) }

\* elvis_analyze_screen up to its await: the intent is stored and the call
\* waits for captureAndAnalyze; r are the clock reads of the add()
AnalyzeScreenStart(prompt, model, random, r) ==
  LET memory == NewMemory(IntentPrefix \o prompt, "task", 6,
                          <<"screen", "vision", model>>,
                          random, r[1], r[2], r[3])
  IN  /\ Len(analyzing) < MaxPending
      /\ \E nows \in EvictionReads(slots, maxSlots, r[3]) :
           LET a == add(slots, maxSlots, memory, nows)
           IN  /\ slots' = a.slots
               /\ evicted' = a.evicted
               /\ scored' = a.scored
               /\ clock' = Last(nows, r[3])
      /\ analyzing' = Append(analyzing, [prompt |-> prompt, model |-> model])
      /\ op' = "elvis_analyze_screen"
      /\ arg' = <<prompt, model>>
      /\ ret' = Undefined
      /\ UNCHANGED <<maxSlots, health, tasks, manager>>

\* the i-th waiting elvis_analyze_screen call resumes with the result of
\* captureAndAnalyze and runs to its return
AnalyzeScreenResume(i, result, random, r) ==
  LET call == analyzing[i]
  IN  /\ analyzing' = SubSeq(analyzing, 1, i - 1)
                        \o SubSeq(analyzing, i + 1, Len(analyzing))
      /\ IF ~result.success
         THEN /\ ret' = [kind |-> "failed"]
              /\ evicted' = NotCalled
              /\ scored' = <<>>
              /\ UNCHANGED <<slots, clock>>
         ELSE LET summary == substring(result.analysis, 0, 200)
                               \o <<".", ".", ".">>
                  memory  == NewMemory(ResultPrefix \o summary, "result", 4,
                                       <<"screen", "vision", call.model,
                                         "analysis">>,
                                       random, r[1], r[2], r[3])
              IN  \E nows \in EvictionReads(slots, maxSlots, r[3]) :
                    LET a == add(slots, maxSlots, memory, nows)
                    IN  /\ slots' = a.slots
                        /\ evicted' = a.evicted
                        /\ scored' = a.scored
                        /\ clock' = Last(nows, r[3])
                        /\ ret' = [kind |-> "analysis",
                                   analysis |-> result.analysis]
      /\ op' = "analysis resolved"
      /\ arg' = <<call.prompt, call.model>>
      /\ UNCHANGED <<maxSlots, health, tasks, manager>>

(* ------------- index.js: the tools that share the working memory ------ *)
\* the server with its clock at the last instant; one task is delegated,
\* requests of the memory tool, of elvis_result and of elvis_analyze_screen
\* arrive in any order, and the waiting calls resume in any order
InitServerTools == InitServer(LastInstant)

NextServerTools ==
  \/ \E pre \in EvictionReads(slots, maxSlots, clock) :
       \E r \in Reads(Last(pre, clock), 3) :
         ToolMemoryAdd(Text(3), "result", Undefined, OneRandom, pre, r)
  \/ \E memory_id \in { MakeId(LastInstant, OneRandom) } :
       ToolMemoryAccess(memory_id)
  \/ ToolMemoryClear
  \/ \E r \in Reads(clock, 3) :
       AnalyzeScreenStart(Text(1), "llava", OneRandom, r)
  \/ \E i \in 1..Len(analyzing), result \in AnalysisResults,
        r \in Reads(clock, 3) : AnalyzeScreenResume(i, result, OneRandom, r)
  \/ \E r \in Reads(clock, 3) :
       /\ Len(tasks) = 0
       /\ ToolDelegate(TaskText, "llama3.2", <<>>, OneRandom, r)
  \/ \E i \in 1..Len(tasks), r \in Reads(clock, 1) :
       OllamaResolves(i, Str(ResultText), r)
  \/ \E r \in Reads(clock, 3) :
       ToolResult(generateTaskId(LastInstant, OneRandom), OneRandom, r)

SpecServerTools == InitServerTools /\ [][NextServerTools]_vars


(* ============================== claims ================================ *)
\* the live entries other than the one the last add() appended
Survivors == IF op = "add" THEN SubSeq(slots, 1, Len(slots) - 1) ELSE slots

\* s without its i-th element
RemoveAt(s, i) == SubSeq(s, 1, i - 1) \o SubSeq(s, i + 1, Len(s))

LiveIds(s) == { s[i].id : i \in 1..Len(s) }

\* C1: with a capacity of at least 1, after every completed operation the
\* store holds at most maxSlots entries.
C1_CapacityInvariant == maxSlots >= 1 => Len(slots) <= maxSlots

\* a full store of two entries just took an insert that evicted
C1_Witness ==
  /\ op = "add" /\ evicted.kind = "entry"
  /\ maxSlots = 2 /\ Len(slots) = maxSlots

\* C2: an eviction removes an entry of minimum score at the eviction
\* instant: at one instant T of the call, no surviving entry scores
\* strictly lower than the evicted one.  T ranges over every instant up to
\* the end of the call at which all the scores are defined.
C2_EvictsMinimumAtOneInstant ==
  evicted.kind = "entry" =>
    \E T \in Instants :
      /\ T <= clock
      /\ T >= getTime(evicted.value.metadata.lastAccessed)
      /\ \A i \in 1..Len(Survivors) :
           /\ T >= getTime(Survivors[i].metadata.lastAccessed)
           /\ calculateValue(Survivors[i], T) >= calculateValue(evicted.value, T)

\* the indices of s whose score at T is the minimum over s
MinAt(s, T) ==
  { i \in 1..Len(s) :
      \A j \in 1..Len(s) : calculateValue(s[i], T) <= calculateValue(s[j], T) }

\* C3: when two or more live entries share the minimum score at the
\* eviction time, the evicted one is the earliest-inserted of them (lowest
\* index in store order).  The eviction time T is any instant of the call.
C3_TieEvictsEarliest ==
  [][ (evicted'.kind = "entry" /\ op' \in {"add", "evictLowestValue"}) =>
        \E T \in Instants :
          /\ clock <= T /\ T <= clock'
          /\ Cardinality(MinAt(slots, T)) >= 2 =>
               \E i \in MinAt(slots, T) :
                 /\ \A j \in MinAt(slots, T) : i <= j
                 /\ evicted'.value = slots[i] ]_vars

\* C4: an insert into a store with size >= capacity >= 1 removes exactly
\* one previously live entry: afterwards the store is the old store without
\* one entry, followed by the new entry, and its size is unchanged.
C4_InsertEvictsExactlyOne ==
  [][ (op' = "add" /\ maxSlots >= 1 /\ Len(slots) >= maxSlots) =>
        /\ Len(slots') = Len(slots)
        /\ \E i \in 1..Len(slots) :
             slots' = Append(RemoveAt(slots, i), ret'.value) ]_vars

\* C5: capacity 2, insert A(decision, 7), B(result, 1), C(task, 5) with no
\* access in between: the third insert evicts B and leaves exactly A and C.
C5_ScenarioEvictsB ==
  (op = "add" /\ arg = InputC) =>
    /\ Len(slots) = 2
    /\ slots[1].metaTags.category = "decision" /\ slots[1].priority = 7
    /\ slots[2] = ret.value
    /\ slots[2].metaTags.category = "task" /\ slots[2].priority = 5
    /\ evicted.kind = "entry"
    /\ evicted.value.metaTags.category = "result"

\* C6: no two live entries have the same id.
C6_UniqueIds ==
  \A i, j \in 1..Len(slots) : i # j => slots[i].id # slots[j].id

\* C7: access(id) on a live id adds exactly 1 to the accessCount of one
\* entry with that id, sets its lastAccessed to the time of the call and
\* returns it; every other entry, the size and the order are unchanged.
C7_AccessUpdatesOneEntry ==
  [][ (op' = "access" /\ arg'[1] \in LiveIds(slots)) =>
        \E i \in 1..Len(slots) :
          /\ slots[i].id = arg'[1]
          /\ slots' = [slots EXCEPT
               ![i].metadata.accessCount = slots[i].metadata.accessCount + 1,
               ![i].metadata.lastAccessed = toISOString(clock')]
          /\ ret' = Entry(slots'[i])
          /\ maxSlots' = maxSlots ]_vars

\* an entry of a two-entry store was accessed later than it was inserted
C7_Witness ==
  /\ op = "access" /\ ret.kind = "entry" /\ Len(slots) = 2
  /\ ret.value.metadata.accessCount = 1
  /\ ret.value.metadata.lastAccessed # ret.value.metadata.created

\* C8: access(id) with an id of no live entry changes nothing in the store
\* and returns the absent result.
C8_AccessUnknownIsNoOp ==
  [][ (op' = "access" /\ arg'[1] \notin LiveIds(slots)) =>
        /\ slots' = slots
        /\ maxSlots' = maxSlots
        /\ ret' = None ]_vars

\* access missed in a store that holds other entries
C8_Witness ==
  /\ op = "access" /\ ret = None
  /\ Len(slots) >= 1 /\ arg[1] \notin LiveIds(slots)

\* min(max(p, 1), 7), spelled out by cases
ExpectedPriority(p) == IF p < 1 THEN 1 ELSE IF p > 7 THEN 7 ELSE p

\* C9: insert stores the priority min(max(p, 1), 7), so that every live
\* entry's priority lies in 1..7.
C9_PriorityClamped ==
  /\ \A i \in 1..Len(slots) : slots[i].priority \in 1..7
  /\ op = "add" => ret.value.priority = ExpectedPriority(arg[3])

\* priority -3 was stored as 1 next to an entry whose 20 was stored as 7
C9_Witness ==
  /\ op = "add" /\ arg[3] = -3 /\ ret.value.priority = 1
  /\ Len(slots) = 2 /\ slots[1].priority = 7

\* C10: the stored content is the first min(length, 200) characters of the
\* input, so that every live entry's content has at most 200 characters.
C10_ContentTruncated ==
  /\ \A i \in 1..Len(slots) : Len(slots[i].content) <= 200
  /\ op = "add" =>
       ret.value.content = [i \in 1..Min(Len(arg[1]), 200) |-> arg[1][i]]

\* a content of 350 characters was stored as its first 200
C10_Witness ==
  /\ op = "add" /\ Len(arg[1]) = 350
  /\ Len(ret.value.content) = 200
  /\ slots[Len(slots)] = ret.value

\* C11: a clear step empties the store whatever it held and returns the
\* number of entries that were live before it; a list() that follows a
\* clear returns the empty sequence, with or without scores.
C11_ClearRemovesEverything ==
  [][/\ op' = "clear" =>
          /\ slots' = <<>>
          /\ Len(slots') = 0
          /\ ret' = Count(Len(slots))
     /\ (op = "clear" /\ op' = "list") => ret' = Listing(<<>>)]_vars

\* a clear of a store that held entries has returned their number
C11_Witness ==
  /\ op = "clear"
  /\ ret.kind = "count"
  /\ ret.value >= 1
  /\ slots = <<>>

\* how many entries of s carry the id
CountId(s, id) == Cardinality({ i \in 1..Len(s) : s[i].id = id })

\* the store after a step without the entry the step itself appended
OldAfterStep == IF op' = "add" THEN SubSeq(slots', 1, Len(slots') - 1) ELSE slots'

\* some entry that was live before the step is not live after it
SomeEntryLeft ==
  \E i \in 1..Len(slots) :
    CountId(OldAfterStep, slots[i].id) < CountId(slots, slots[i].id)

\* C12 as stated: an entry leaves the store only in a clear step or in an
\* add step on a store with size >= capacity; no other step removes one.
C12_LeavesOnlyByClearOrFullInsert ==
  [][SomeEntryLeft =>
       \/ op' = "clear"
       \/ op' = "add" /\ Len(slots) >= maxSlots]_vars

\* C12 amended: an entry leaves the store only in a clear step, in an add
\* step on a store with size >= capacity, or in a direct evictLowestValue
\* step; access, list and an add on a store with size < capacity remove
\* nothing.
C12_LeavesOnlyByClearEvictOrFullInsert ==
  [][SomeEntryLeft =>
       \/ op' = "clear"
       \/ op' = "evictLowestValue"
       \/ op' = "add" /\ Len(slots) >= maxSlots]_vars

\* a direct evictLowestValue has taken an entry out and left another live
C12_Witness ==
  /\ op = "evictLowestValue"
  /\ ret.kind = "entry"
  /\ Len(slots) = 1
  /\ slots[1].id # ret.value.id

\* C13: accessCount of an entry is the number of successful access calls
\* on its id since it was created. Step by step: an add step appends an
\* entry with accessCount 0; a successful access(id) step adds exactly 1 to
\* the accessCount of every live entry whose id is id and leaves the others'
\* alone; every other step leaves each surviving entry's accessCount as it
\* was, so it never decreases and is never reset.
C13_AccessCountCountsAccesses ==
  [][/\ op' = "add" => slots'[Len(slots')].metadata.accessCount = 0
     /\ (op' = "access" /\ ret'.kind = "entry") =>
          /\ Len(slots') = Len(slots)
          /\ \A i \in 1..Len(slots) :
               slots'[i].metadata.accessCount =
                 slots[i].metadata.accessCount
                   + (IF slots[i].id = arg'[1] THEN 1 ELSE 0)
     /\ ~(op' = "access" /\ ret'.kind = "entry") =>
          \A j \in 1..Len(OldAfterStep) :
            \E i \in 1..Len(slots) :
              /\ OldAfterStep[j].id = slots[i].id
              /\ OldAfterStep[j].metadata.accessCount
                   = slots[i].metadata.accessCount]_vars

\* e2 is e1 in everything but lastAccessed and accessCount
SameButRecency(e1, e2) ==
  e2 = [e1 EXCEPT !.metadata.lastAccessed = e2.metadata.lastAccessed,
                  !.metadata.accessCount = e2.metadata.accessCount]

\* C14: no step changes the id, content, priority, category, tags or created
\* time of a live entry. A successful access step leaves every entry in
\* its place and the same in all but lastAccessed and accessCount; in every
\* other step each entry that stays live is exactly an entry that was live.
C14_OnlyAccessChangesEntries ==
  [][IF op' = "access" /\ ret'.kind = "entry"
     THEN /\ Len(slots') = Len(slots)
          /\ \A i \in 1..Len(slots) : SameButRecency(slots[i], slots'[i])
     ELSE \A j \in 1..Len(OldAfterStep) :
            \E i \in 1..Len(slots) : OldAfterStep[j] = slots[i]]_vars

\* an access an hour after the add has changed an entry that sits next to
\* an untouched one
C14_Witness ==
  /\ op = "access" /\ ret.kind = "entry" /\ Len(slots) = 2
  /\ getTime(ret.value.metadata.lastAccessed)
       >= getTime(ret.value.metadata.created) + HourMs
  /\ \E i \in 1..2 : slots[i].metadata.accessCount = 0

\* a is b with some elements taken out, the others in the order of b
IsSubSeq(a, b) ==
  \E f \in [1..Len(a) -> 1..Len(b)] :
    /\ \A j \in 1..Len(a) : a[j] = b[f[j]]
    /\ \A j, k \in 1..Len(a) : j < k => f[j] < f[k]

\* the entries of s are in the order of their created times
InArrivalOrder(s) ==
  \A i, j \in 1..Len(s) :
    i < j => getTime(s[i].metadata.created) <= getTime(s[j].metadata.created)

C16_InsertedEntryIsFresh ==
  /\ op = "add" =>
       /\ ret.value.metadata.accessCount = 0
       /\ ret.value.metadata.lastAccessed = ret.value.metadata.created
  /\ \A i \in 1..Len(slots) :
       slots[i].metadata.lastAccessed # slots[i].metadata.created
         => slots[i].metadata.accessCount > 0

\* the weight the contract gives a category, in tenths
ExpectedWeight(category) ==
  CASE category = "decision"  -> 10
    [] category = "insight"   -> 9
    [] category = "pattern"   -> 8
    [] category = "reference" -> 6
    [] category = "task"      -> 5
    [] category = "result"    -> 4
    [] OTHER                  -> 5

\* the entry e with another category
WithCategory(e, category) == [e EXCEPT !.metaTags.category = category]

\* C17: every live entry, whatever category string it was added with, has
\* a score, and its score is the score of the same entry with category
\* task plus 0.2 times what its category's weight (1.0, 0.9, 0.8, 0.6, 0.5,
\* 0.4 for the six named ones, 0.5 for any other) is above 0.5; so with a
\* category outside the six it scores exactly as its task twin.
C17_CategoryWeights ==
  \A i \in 1..Len(slots) :
    LET e == slots[i]
        c == e.metaTags.category
    IN  /\ calculateValue(e, clock) # NaN
        /\ calculateValue(e, clock)
             = calculateValue(WithCategory(e, "task"), clock)
                 + (ExpectedWeight(c) - 5) * 2 * (Scale \div 100)

\* a <= b on scores; no comparison with NaN is true
ScoreLeq(a, b) == a # NaN /\ b # NaN /\ a <= b

\* the entry e last accessed at the instant t
WithLastAccessed(e, t) == [e EXCEPT !.metadata.lastAccessed = toISOString(t)]

\* C18: of two entries that differ only in lastAccessed, scored at the same
\* instant, the one with the older lastAccessed has a score less than or equal
\* to the other's; taken over every live entry and every pair of instants
\* up to the present.
C18_AgeMonotone ==
  \A i \in 1..Len(slots) :
    \A older, newer \in Instants :
      (older <= newer /\ newer <= clock) =>
        ScoreLeq(calculateValue(WithLastAccessed(slots[i], older), clock),
                 calculateValue(WithLastAccessed(slots[i], newer), clock))

\* C19: an evictLowestValue step on a store with no entries returns the
\* absent result and leaves the store empty, its capacity and the clock as
\* they were.
C19_EvictOnEmptyIsNoOp ==
  [][(op' = "evictLowestValue" /\ Len(slots) = 0) =>
       /\ ret' = None
       /\ slots' = <<>>
       /\ maxSlots' = maxSlots
       /\ clock' = clock]_vars

\* evictLowestValue has been called on an empty store of capacity >= 1
C19_Witness ==
  /\ op = "evictLowestValue"
  /\ ret.kind = "none"
  /\ Len(slots) = 0
  /\ maxSlots >= 1

\* C20: add() can be called with every content, category and priority in
\* every reachable store, and after an add step the call has returned the
\* entry it made from its arguments and that entry is live and the last of
\* the store, also when the step evicted.
C20_InsertAlwaysSucceeds ==
  /\ op = "add" =>
       /\ ret.kind = "entry"
       /\ ret.value.content = TruncateContent(arg[1])
       /\ ret.value.metaTags.category = arg[2]
       /\ ret.value.priority = ClampPriority(arg[3])
       /\ Len(slots) >= 1
       /\ slots[Len(slots)] = ret.value
  /\ \A in \in OddInputs :
       ENABLED (\E random \in RandomStrings, r \in Reads(clock, 3) :
                  /\ Add(in[1], in[2], in[3], in[4], random, r)
                  /\ UNCHANGED serverVars)

\* an add with a category that scores NaN has evicted an entry of a store
\* that was full and is itself live
C20_Witness ==
  /\ op = "add" /\ arg[2] = "constructor" /\ arg[3] = 20
  /\ evicted.kind = "entry"
  /\ Len(slots) = maxSlots
  /\ slots[Len(slots)] = ret.value
  /\ calculateValue(ret.value, clock) = NaN

\* C22: with capacity 0 the store never holds more than one entry. An add
\* on the empty store calls the eviction, which returns the absent result,
\* and appends, so the size becomes 1, above the capacity; an add on the
\* store of one entry evicts that entry and appends, so the size is 1 again.
C22_ZeroCapacityHoldsOne ==
  [][maxSlots = 0 =>
       /\ Len(slots') <= 1
       /\ op' = "add" =>
            /\ Len(slots') = 1
            /\ Len(slots') > maxSlots
            /\ slots'[1] = ret'.value
            /\ Len(slots) = 0 => evicted' = None
            /\ Len(slots) = 1 =>
                 (evicted' = Entry(slots[1]) /\ CountId(slots, slots[1].id) = 1)]_vars

\* a later add on the store of capacity 0 has evicted the entry it found
C22_Witness ==
  /\ maxSlots = 0 /\ op = "add"
  /\ evicted.kind = "entry"
  /\ Len(slots) = 1
  /\ slots[1] = ret.value

\* the step is a call of the operation o on the model m
Calls(o, m) == op' = o /\ arg' = <<m>>

\* C23: failures of a tracked model counts its recordFailure calls since
\* its last recordSuccess: a recordFailure adds 1, a recordSuccess makes it
\* 0, nothing else changes it. A recordFailure that brings the count to 3
\* or more leaves the model disabled and isHealthy false; one that leaves
\* it below 3 does not change the status.
C23_ThreeFailuresDisable ==
  [][\A m \in DOMAIN health :
       /\ Calls("recordFailure", m) =>
            /\ health'[m].failures = health[m].failures + 1
            /\ health'[m].failures >= 3 =>
                 (health'[m].status = "disabled" /\ ~isHealthy(health', m))
            /\ health'[m].failures < 3 => health'[m].status = health[m].status
       /\ Calls("recordSuccess", m) => health'[m].failures = 0
       /\ ~(Calls("recordFailure", m) \/ Calls("recordSuccess", m)) =>
            health'[m].failures = health[m].failures]_vars

\* the third failure in a row has disabled a model that a success had made
\* active
C23_Witness ==
  /\ op = "recordFailure" /\ arg = <<"llama3.2">>
  /\ health["llama3.2"].failures = 3
  /\ health["llama3.2"].successes >= 1
  /\ health["llama3.2"].status = "disabled"

\* C24: a recordSuccess on a tracked model adds exactly 1 to its successes,
\* makes its failures 0 and its status active, whatever the status was, and
\* leaves the record of every other model as it was.
C24_SuccessResets ==
  [][\A m \in DOMAIN health :
       Calls("recordSuccess", m) =>
         /\ health'[m].successes = health[m].successes + 1
         /\ health'[m].failures = 0
         /\ health'[m].status = "active"
         /\ \A o \in DOMAIN health : o # m => health'[o] = health[o]]_vars

\* successes have made active the model that started disabled, after two
\* failures, and the model that started limited
C24_Witness ==
  /\ op = "recordSuccess" /\ arg = <<"mixtral">>
  /\ health["mixtral"].status = "active"
  /\ health["mixtral"].failures = 0
  /\ health["gemma:2b"].status = "active"

\* the place of a model in the health table
TableIndex(m) == CHOOSE i \in 1..Len(ModelNames) : ModelNames[i] = m

\* successes / (successes + failures) of a is at least that of b; a model
\* with no success and no failure has rate 0
RateAtLeast(a, b) ==
  LET da == IF a.successes + a.failures = 0 THEN 1 ELSE a.successes + a.failures
      db == IF b.successes + b.failures = 0 THEN 1 ELSE b.successes + b.failures
  IN  a.successes * db >= b.successes * da

\* C25: when some model is active, getBestModel has returned an active
\* model whose success rate no active model exceeds, and every active model
\* of the same rate stands after it in the table.
C25_BestIsActiveMaximum ==
  (op = "getBestModel" /\ \E m \in DOMAIN health : health[m].status = "active") =>
    /\ ret \in DOMAIN health
    /\ health[ret].status = "active"
    /\ \A o \in DOMAIN health :
         health[o].status = "active" =>
           /\ RateAtLeast(health[ret], health[o])
           /\ RateAtLeast(health[o], health[ret]) => TableIndex(ret) <= TableIndex(o)

\* the best model is not the first active one of the table
C25_Witness ==
  /\ op = "getBestModel"
  /\ health["llama3.2"].status = "active"
  /\ health["deepseek-r1"].status = "active"
  /\ ret = "mixtral"

\* the status changes a task record may make
StatusFlow ==
  { <<"pending", "processing">>, <<"processing", "completed">>,
    <<"processing", "failed">> }

\* C26: the status of a task record only moves along pending ->
\* processing -> completed or failed. In every step records are only added
\* at the end; each record that was there either keeps its status or makes
\* one move of the flow, so none leaves completed or failed, none returns
\* to pending and none reaches completed or failed except from processing;
\* a record that is new starts as pending and has at most moved on to
\* processing.
C26_StatusFlow ==
  [][/\ Len(tasks') >= Len(tasks)
     /\ \A i \in 1..Len(tasks) :
          \/ tasks'[i].status = tasks[i].status
          \/ <<tasks[i].status, tasks'[i].status>> \in StatusFlow
     /\ \A i \in (Len(tasks) + 1)..Len(tasks') :
          /\ tasks'[i].status \in { "pending", "processing" }
          /\ NewTask(tasks'[i].id, tasks'[i].task, tasks'[i].model,
                     tasks'[i].context, 0).status = "pending"]_vars

\* one task has completed and another has failed, both from processing
C26_Witness ==
  /\ Len(tasks) = 2
  /\ tasks[1].status = "completed"
  /\ tasks[2].status = "failed"
  /\ op = "rejected"

\* C27: an elvis_result step changes the working memory or returns a
\* result only if the task stored under the id is completed; for an id
\* with no task it returns the not-found message and for a task that is
\* pending, processing or failed the not-completed message, and in both
\* cases the working memory is as it was.
C27_ResultOnlyWhenCompleted ==
  [][op' = "elvis_result" =>
       LET task == TasksGet(tasks, arg'[1])
       IN  /\ (ret'.kind = "result" \/ slots' # slots) =>
                (task # Undefined /\ task.status = "completed")
           /\ task = Undefined =>
                (ret'.kind = "notfound" /\ slots' = slots)
           /\ (task # Undefined /\ task.status # "completed") =>
                (ret'.kind = "notcompleted" /\ ret'.status = task.status
                   /\ slots' = slots)
           /\ ret'.kind = "result" =>
                /\ ret'.result = task.result
                /\ Len(slots') >= 1
                /\ slots'[Len(slots')].metaTags.category = "result"
                /\ slots'[Len(slots')].priority = 3]_vars

\* elvis_result has been refused for a failed task while the working
\* memory holds the result of a completed one
C27_Witness ==
  /\ op = "elvis_result"
  /\ ret.kind = "notcompleted"
  /\ ret.status = "failed"
  /\ Len(slots) = 1

\* C28: when elvis_delegate has returned, its response says pending and
\* the task stored under the returned id has status pending.
C28_DelegateReturnsPending ==
  op = "elvis_delegate" =>
    /\ ret.status = "pending"
    /\ TasksGet(tasks, ret.taskId) # Undefined
    /\ TasksGet(tasks, ret.taskId).status = "pending"

\* what the response of an add says of an entry: its category and the
\* first 50 characters of its content
ResponseName(e) == <<e.metaTags.category, substring(e.content, 0, 50)>>

\* C29: for elvis_memory add, the response names an evicted entry exactly
\* when that add evicted one, and the entry it names is the entry the add
\* removed from the store.
C29_ResponseNamesEvicted ==
  (op = "elvis_memory add" /\ ret.kind = "added") =>
    /\ (ret.evicted.kind = "entry") <=> (evicted.kind = "entry")
    /\ ret.evicted.kind = "entry" =>
         ResponseName(ret.evicted.value) = ResponseName(evicted.value)

\* C30: elvis_memory add stores the supplied priority clamped to [1,7] for
\* every supplied number, 0 and negative numbers giving 1, and stores the
\* default 5 only when no priority is supplied.
C30_ToolPriorityClamped ==
  (op = "elvis_memory add" /\ ret.kind = "added") =>
    /\ ret.priority = slots[Len(slots)].priority
    /\ ret.priority = IF arg[3].kind = "undefined" THEN 5
                      ELSE ExpectedPriority(arg[3].value)

\* the operations whose handler calls add()
InsertingTools ==
  { "elvis_memory add", "elvis_result", "elvis_analyze_screen",
    "analysis resolved" }

\* C21: under any interleaving of pending tool requests that touch the
\* shared working memory, the store never holds more than 7 entries and no
\* single insert evicts more than one entry: a step of a handler that
\* inserts never leaves the store shorter than it found it.
C21_InterleavedInserts ==
  [][ /\ Len(slots') <= ServerSlots
      /\ op' \in InsertingTools => Len(slots') >= Len(slots) ]_vars

\* a < b on scores; no comparison with NaN is true
ScoreLess(a, b) == a # NaN /\ b # NaN /\ a < b

\* C31: a successful access never lowers the accessed entry's score:
\* scored at one instant not earlier than the access, the entry after the
\* access (lastAccessed = now, accessCount + 1) has a strictly greater
\* score than the entry before it.
C31_AccessRaisesScore ==
  [][ (op' = "access" /\ ret'.kind = "entry") =>
        LET i == FindIndex(slots, arg'[1])
        IN  \A T \in Instants :
              T >= clock' =>
                ScoreLess(calculateValue(slots[i], T),
                          calculateValue(slots'[i], T)) ]_vars

\* C32: in every reachable state of the tracker a model whose failures
\* counter is 3 or more is disabled, and the counter is the number of
\* consecutive failures since the model's last success: it starts at 0, a
\* recordFailure of the model adds 1, a recordSuccess of the model makes it
\* 0 and every other step leaves it.
C32_FailuresInvariant ==
  /\ \A m \in DOMAIN health : health[m].failures = 0
  /\ [](\A m \in DOMAIN health :
          health[m].failures >= 3 => health[m].status = "disabled")
  /\ [][\A m \in DOMAIN health :
          health'[m].failures =
            IF Calls("recordFailure", m) THEN health[m].failures + 1
            ELSE IF Calls("recordSuccess", m) THEN 0
            ELSE health[m].failures]_vars

\* one model is disabled by three failures in a row while another, whose
\* count a success had restarted, stands at two failures and is active
C32_Witness ==
  /\ health["deepseek-r1"].failures = 3
  /\ health["deepseek-r1"].status = "disabled"
  /\ health["llama3.2"].successes >= 1
  /\ health["llama3.2"].failures = 2
  /\ health["llama3.2"].status = "active"

\* some model of the table is active
SomeActive == \E m \in DOMAIN health : health[m].status = "active"

\* C33: when no model is active, getBestModel returns 'llama3.2' although
\* isHealthy('llama3.2') is then false; so the model getBestModel returns
\* is healthy only in states where at least one model is active.
C33_FallbackIsUnhealthy ==
  op = "getBestModel" =>
    /\ ~SomeActive => (ret = "llama3.2" /\ ~isHealthy(health, "llama3.2"))
    /\ isHealthy(health, ret) => SomeActive

\* getBestModel has answered with every model of the table out of service
C33_Witness ==
  /\ op = "getBestModel"
  /\ ~SomeActive
  /\ ret = "llama3.2"
  /\ health["llama3.2"].status = "disabled"

\* the task has reached its end
Settled(task) == task.status \in { "completed", "failed" }

\* C34: every delegated task eventually reaches completed or failed, given
\* that its Ollama call returns or throws in the end; a task whose call
\* throws or gets a response that is not ok ends in failed with the error
\* message recorded, and a failed task never becomes completed.
C34_TasksSettle ==
  /\ [][\A i \in 1..Len(tasks) :
          /\ (op' = "settled" /\ arg'[1] = i /\ arg'[2].kind # "ok") =>
               /\ tasks'[i].status = "failed"
               /\ tasks'[i].error.kind = "string"
               /\ tasks'[i].error.value[1] = "Failed to call Ollama: "
               /\ tasks'[i].error.value[Len(tasks'[i].error.value)]
                    = arg'[2].detail.value[1]
          /\ tasks[i].status = "failed" => tasks'[i] = tasks[i]]_vars
  /\ \A i \in 1..MaxTasks :
       (Len(tasks) >= i) ~> (Len(tasks) >= i /\ Settled(tasks[i]))

\* a response that was not ok has failed one task, with its status text in
\* the recorded message, and the other task is completed
C34_Witness ==
  /\ Len(tasks) = 2
  /\ tasks[1].status = "failed"
  /\ tasks[1].error = Str(<<"Failed to call Ollama: ", "Ollama error: ",
                            "Not Found">>)
  /\ tasks[2].status = "completed"

\* C35: callOllama of the manager sends the generate request only after
\* ensureRunning has reported success: a step that sends one leaves a
\* successful startup result, and while the request is under way the result
\* is a success. When ensureRunning fails (load_failed or timeout) the call
\* throws 'Cannot start Ollama' and that step sends no generate request.
C35_GenerateAfterStartup ==
  /\ [](manager.pc = "generate" =>
          (manager.startup # NotCalled /\ manager.startup.success))
  /\ [][/\ manager'.sent # manager.sent =>
             /\ manager'.sent = manager.sent + 1
             /\ manager'.startup # NotCalled
             /\ manager'.startup.success
             /\ manager'.startup.action \in { "already_running", "started" }
        /\ (manager'.startup # manager.startup /\ manager'.startup # NotCalled
              /\ ~manager'.startup.success) =>
             /\ manager'.startup.action \in { "load_failed", "timeout" }
             /\ manager'.pc = "done"
             /\ manager'.outcome.kind = "rejected"
             /\ manager'.outcome.value.value[1] = "Cannot start Ollama: "
             /\ manager'.sent = manager.sent]_vars

\* one call has thrown without a generate request, and the next call has
\* sent one after the manager started the service
C35_Witness ==
  /\ manager.calls = 2
  /\ manager.sent = 1
  /\ manager.pc = "generate"
  /\ manager.startup.action = "started"

====
